---- MODULE Spec2Model ----
\* Model of app/lib/pdf2img.ts: the lazily loaded, process-wide pdf.js engine
\* (pdfjsLib, loadPromise, getWorkerUrl, loadPdfJs) and convertPdfToImage,
\* one process per call, interleaving at every await.
EXTENDS Integers, Sequences, FiniteSets, TLC

\* ---------------------------------------------------------------- bounds
\* Number of convertPdfToImage calls made in one process lifetime.
NCalls == 2

Calls == 1..NCalls

\* Longest file name tried when the names are enumerated.
MaxNameLen == 5

\* ---------------------------------------------------------------- values
\* null / undefined
Null == [null |-> TRUE]

\* The module namespace object of pdfjs-dist/legacy/build/pdf.mjs.
PdfJsModule == [module |-> "pdfjs-dist/legacy/build/pdf.mjs"]

FallbackWorkerUrl == "/pdf.worker.min.mjs"

\* What the bundler's `?url` import resolves to when it works.
AssetWorkerUrl == "/assets/pdf.worker.min.mjs"

Scale == 3

MkError(n, m) == [name |-> n, message |-> m]

\* Failures the external operations can produce.  The engine import can fail
\* with an ordinary message or with an Error whose message is empty.
ImportErrors == {MkError("TypeError", "Failed to fetch module"), MkError("Error", "")}
WorkerImportError == MkError("TypeError", "worker asset missing")
ReadError == MkError("NotReadableError", "read failed")
ParseError == MkError("InvalidPDFException", "Invalid PDF structure.")
PageError == MkError("Error", "Invalid page request.")
ViewportError == MkError("TypeError", "viewport failed")
CanvasError == MkError("Error", "createElement failed")
RenderError == MkError("RenderingCancelledException", "Rendering cancelled")
ToBlobError == MkError("SecurityError", "toBlob failed")
WrapError == MkError("TypeError", "File constructor failed")
UrlError == MkError("TypeError", "createObjectURL failed")
NullFileError == MkError("TypeError", "Cannot read properties of null")

\* Native (unscaled) size of page 1 of each document payload.
PageSize(data) ==
    CASE data = "docA" -> [width |-> 2, height |-> 3]
      [] OTHER -> [width |-> 1, height |-> 1]

MkFile(n, d) == [name |-> n, data |-> d]

\* File arguments offered to convertPdfToImage: names that end in .pdf in
\* several letter cases, names that do not, and null.
PdfFiles ==
    { MkFile(<<"c", "v", ".", "P", "D", "F">>, "docA"),
      MkFile(<<"a", ".", "p", "d", "f", ".", "p", "d", "f">>, "docB") }

OtherFiles ==
    { MkFile(<<"a", ".", "p", "d", "f", ".", "t", "x", "t">>, "docA"),
      MkFile(<<"a", "p", "d", "f">>, "docB") }

FileArgs == PdfFiles \cup OtherFiles \cup {Null}

\* ---------------------------------------------------------------- state
VARIABLES
    hasWindow,      \* typeof window !== "undefined"
    pdfjsLib,       \* module variable pdfjsLib
    loadPromise,    \* module variable loadPromise: Null or the id of a load task
    loadTask,       \* the async closure created in loadPdfJs, by creating call
    workerSrc,      \* lib.GlobalWorkerOptions.workerSrc ("" until configured)
    importsStarted, \* number of import("pdfjs-dist/legacy/build/pdf.mjs") started
    pc,             \* position of each convertPdfToImage call
    file,           \* argument of each call
    frame,          \* local variables of each call
    canvases,       \* canvas elements created so far, by id
    result,         \* value the call's promise resolved with
    trace,          \* steps each call has begun, in order
    objectURLs      \* blobs registered by URL.createObjectURL, in order

vars == <<hasWindow, pdfjsLib, loadPromise, loadTask, workerSrc, importsStarted,
          pc, file, frame, canvases, result, trace, objectURLs>>

shared == <<pdfjsLib, loadPromise, loadTask, workerSrc, importsStarted>>

\* ---------------------------------------------------------------- pure helpers
\* Case folding done by the `i` flag, over the letters the names use.
Lower(ch) ==
    CASE ch = "P" -> "p"
      [] ch = "D" -> "d"
      [] ch = "F" -> "f"
      [] OTHER -> ch

TestPdfUnanchored(name) ==
    \E i \in 1..Len(name) :
        /\ i + 3 <= Len(name)
        /\ [j \in 1..4 |-> Lower(name[i + j - 1])] = <<".", "p", "d", "f">>

\* /\.pdf$/i.test(name)
TestPdf(name) ==
    /\ Len(name) >= 4
    /\ [i \in 1..4 |-> Lower(name[Len(name) - 4 + i])] = <<".", "p", "d", "f">>

StripPdfCaseSensitive(name) ==
    IF Len(name) >= 4 /\ SubSeq(name, Len(name) - 3, Len(name)) = <<".", "p", "d", "f">>
    THEN SubSeq(name, 1, Len(name) - 4)
    ELSE name

\* name.replace(/\.pdf$/i, "")
StripPdf(name) == IF TestPdf(name) THEN SubSeq(name, 1, Len(name) - 4) ELSE name

\* `${originalName}.png`
PngName(name) == StripPdf(name) \o <<".", "p", "n", "g">>

\* String(err) for an Error object (Error.prototype.toString).
ErrString(err) ==
    IF err.name = "" THEN err.message
    ELSE IF err.message = "" THEN err.name
    ELSE err.name \o ": " \o err.message

ErrTextStringOnly(err) == ErrString(err)

\* err?.message || String(err)
ErrText(err) == IF err.message # "" THEN err.message ELSE ErrString(err)

EnvErrorResult ==
    [imageUrl |-> "", file |-> Null,
     error |-> "PDF conversion is only available in the browser."]

ValidationErrorResult ==
    [imageUrl |-> "", file |-> Null, error |-> "Please provide a valid .pdf file."]

ContextErrorResult ==
    [imageUrl |-> "", file |-> Null, error |-> "Unable to get 2D canvas context."]

BlobErrorResult ==
    [imageUrl |-> "", file |-> Null,
     error |-> "Failed to create image blob from canvas."]

CaughtResultNoFile(err) ==
    [imageUrl |-> "", error |-> "Failed to convert PDF: " \o ErrText(err)]

\* The object returned from the catch block.
CaughtResult(err) ==
    [imageUrl |-> "", file |-> Null,
     error |-> "Failed to convert PDF: " \o ErrText(err)]

GuardClausesFileFirst(f) ==
    IF f = Null \/ ~TestPdf(f.name) THEN ValidationErrorResult
    ELSE IF ~hasWindow THEN EnvErrorResult
    ELSE Null

\* The two guard clauses ahead of the try block: the result they return, or
\* Null when both let the call through.
GuardClauses(f) ==
    IF ~hasWindow THEN EnvErrorResult
    ELSE IF f = Null \/ ~TestPdf(f.name) THEN ValidationErrorResult
    ELSE Null

\* Settlements of a promise.
Resolved(v) == [ok |-> TRUE, value |-> v, reason |-> Null]
Rejected(e) == [ok |-> FALSE, value |-> Null, reason |-> e]

WorkerImportOutcomes ==
    { [threw |-> FALSE, default |-> AssetWorkerUrl],
      [threw |-> FALSE, default |-> ""],
      [threw |-> TRUE, default |-> ""] }

GetWorkerUrlNoCatch(o) ==
    IF o.threw THEN Rejected(WorkerImportError)
    ELSE IF o.default # "" THEN Resolved(o.default)
    ELSE Resolved(FallbackWorkerUrl)

\* async function getWorkerUrl, given what its import produced.
GetWorkerUrl(o) ==
    IF o.threw THEN Resolved(FallbackWorkerUrl)
    ELSE IF o.default # "" THEN Resolved(o.default)
    ELSE Resolved(FallbackWorkerUrl)

\* page.getViewport({ scale: 3 })
GetViewport(page) == [width |-> Scale * page.width, height |-> Scale * page.height]

CreateCanvasShared(c) == [id |-> 1]

\* document.createElement("canvas"): a new element for every call.
CreateCanvas(c) == [id |-> c]

ContextMissingNever(context) == FALSE

\* if (!context) ...
ContextMissing(context) == context = Null

\* ---------------------------------------------------------------- initial state
NoTask == [pc |-> "none", lib |-> Null, mod |-> Null, workerUrl |-> Null, reason |-> Null]

EmptyFrame ==
    [awaiting |-> Null, lib |-> Null, arrayBuffer |-> Null, pdf |-> Null,
     page |-> Null, viewport |-> Null, canvas |-> Null, context |-> Null,
     blob |-> Null]

NoCanvas == [width |-> 0, height |-> 0, image |-> Null]

Init ==
    /\ hasWindow \in BOOLEAN
    /\ pdfjsLib = Null
    /\ loadPromise = Null
    /\ loadTask = [p \in Calls |-> NoTask]
    /\ workerSrc = ""
    /\ importsStarted = 0
    /\ pc = [c \in Calls |-> "idle"]
    /\ file = [c \in Calls |-> Null]
    /\ frame = [c \in Calls |-> EmptyFrame]
    /\ canvases = [k \in Calls |-> NoCanvas]
    /\ result = [c \in Calls |-> Null]
    /\ trace = [c \in Calls |-> <<>>]
    /\ objectURLs = <<>>

\* ---------------------------------------------------------------- control
Step(c, names) == trace' = [trace EXCEPT ![c] = @ \o names]

\* return r
Return(c, r) ==
    /\ pc' = [pc EXCEPT ![c] = "done"]
    /\ result' = [result EXCEPT ![c] = r]

RaiseUncaught(c, err) ==
    /\ pc' = [pc EXCEPT ![c] = "rejected"]
    /\ UNCHANGED result

\* An exception raised inside the try block: the catch block returns.
Raise(c, err) == Return(c, CaughtResult(err))

GotoSkipRenderAwait(c, label) ==
    /\ pc' = [pc EXCEPT ![c] = IF label = "awaitRender" THEN "awaitBlob" ELSE label]
    /\ UNCHANGED result

\* The call suspends at an await.
Goto(c, label) ==
    /\ pc' = [pc EXCEPT ![c] = label]
    /\ UNCHANGED result

\* ---------------------------------------------------------------- engine loader
PromiseRef(p) == [promise |-> p]

LoadPdfJsNoPromiseCheck(c) ==
    IF pdfjsLib # Null
    THEN /\ frame' = [frame EXCEPT ![c].awaiting = Resolved(pdfjsLib)]
         /\ UNCHANGED shared
    ELSE /\ loadTask' = [loadTask EXCEPT ![c].pc = "import"]
         /\ importsStarted' = importsStarted + 1
         /\ loadPromise' = PromiseRef(c)
         /\ frame' = [frame EXCEPT ![c].awaiting = PromiseRef(c)]
         /\ UNCHANGED <<pdfjsLib, workerSrc>>

LoadPdfJsNoCache(c) ==
    /\ loadTask' = [loadTask EXCEPT ![c].pc = "import"]
    /\ importsStarted' = importsStarted + 1
    /\ loadPromise' = PromiseRef(c)
    /\ frame' = [frame EXCEPT ![c].awaiting = PromiseRef(c)]
    /\ UNCHANGED <<pdfjsLib, workerSrc>>

\* loadPdfJs(), called by call c: runs to its first await and leaves in
\* frame[c].awaiting what the caller's await is waiting for.
LoadPdfJs(c) ==
    IF pdfjsLib # Null
    THEN /\ frame' = [frame EXCEPT ![c].awaiting = Resolved(pdfjsLib)]
         /\ UNCHANGED shared
    ELSE IF loadPromise # Null
    THEN /\ frame' = [frame EXCEPT ![c].awaiting = loadPromise]
         /\ UNCHANGED shared
    ELSE /\ loadTask' = [loadTask EXCEPT ![c].pc = "import"]
         /\ importsStarted' = importsStarted + 1
         /\ loadPromise' = PromiseRef(c)
         /\ frame' = [frame EXCEPT ![c].awaiting = PromiseRef(c)]
         /\ UNCHANGED <<pdfjsLib, workerSrc>>

ImportSettlesPublishesEarly(p) ==
    /\ loadTask[p].pc = "import"
    /\ \/ /\ loadTask' = [loadTask EXCEPT ![p].pc = "getWorkerUrl", ![p].lib = PdfJsModule]
          /\ pdfjsLib' = PdfJsModule
       \/ /\ \E e \in ImportErrors :
               loadTask' = [loadTask EXCEPT ![p].pc = "rejected", ![p].reason = e]
          /\ UNCHANGED pdfjsLib
    /\ UNCHANGED <<hasWindow, loadPromise, workerSrc, importsStarted,
                   pc, file, frame, canvases, result, trace, objectURLs>>

\* import("pdfjs-dist/legacy/build/pdf.mjs") settles; on success the closure
\* goes on to call getWorkerUrl, which starts the `?url` import.
ImportSettles(p) ==
    /\ loadTask[p].pc = "import"
    /\ \/ loadTask' = [loadTask EXCEPT ![p].pc = "getWorkerUrl", ![p].lib = PdfJsModule]
       \/ \E e \in ImportErrors :
            loadTask' = [loadTask EXCEPT ![p].pc = "rejected", ![p].reason = e]
    /\ UNCHANGED <<hasWindow, pdfjsLib, loadPromise, workerSrc, importsStarted,
                   pc, file, frame, canvases, result, trace, objectURLs>>

\* The `?url` import settles and getWorkerUrl returns.
WorkerImportSettles(p) ==
    /\ loadTask[p].pc = "getWorkerUrl"
    /\ \E o \in WorkerImportOutcomes :
         loadTask' = [loadTask EXCEPT ![p].pc = "resume", ![p].mod = o,
                                      ![p].workerUrl = GetWorkerUrl(o)]
    /\ UNCHANGED <<hasWindow, pdfjsLib, loadPromise, workerSrc, importsStarted,
                   pc, file, frame, canvases, result, trace, objectURLs>>

\* The closure resumes after `await getWorkerUrl()`: configures the worker
\* location, publishes the handle and fulfils the promise.
LoaderResume(p) ==
    /\ loadTask[p].pc = "resume"
    /\ IF loadTask[p].workerUrl.ok
       THEN /\ workerSrc' = loadTask[p].workerUrl.value
            /\ pdfjsLib' = loadTask[p].lib
            /\ loadTask' = [loadTask EXCEPT ![p].pc = "fulfilled"]
       ELSE /\ loadTask' = [loadTask EXCEPT ![p].pc = "rejected",
                                            ![p].reason = loadTask[p].workerUrl.reason]
            /\ UNCHANGED <<workerSrc, pdfjsLib>>
    /\ UNCHANGED <<hasWindow, loadPromise, importsStarted,
                   pc, file, frame, canvases, result, trace, objectURLs>>

\* ---------------------------------------------------------------- convertPdfToImage
\* The call starts: guard clauses, then the try block up to `await loadPdfJs()`.
Call(c, f) ==
    /\ pc[c] = "idle"
    /\ c > 1 => pc[c - 1] # "idle"
    /\ file' = [file EXCEPT ![c] = f]
    /\ IF GuardClauses(f) # Null
       THEN /\ Return(c, GuardClauses(f))
            /\ Step(c, <<"validate">>)
            /\ UNCHANGED <<shared, frame>>
       ELSE /\ LoadPdfJs(c)
            /\ Goto(c, "awaitLoad")
            /\ Step(c, <<"validate", "loadEngine">>)
    /\ UNCHANGED <<hasWindow, canvases, objectURLs>>

LoadSettlementFulfilledOnly(c) ==
    LET a == frame[c].awaiting IN
    IF "promise" \in DOMAIN a
    THEN LET t == loadTask[a.promise] IN
         IF t.pc = "fulfilled" THEN Resolved(t.lib) ELSE Null
    ELSE a

\* What `await loadPdfJs()` of call c is waiting for, once it has settled:
\* Null while the awaited load task is still pending.
LoadSettlement(c) ==
    LET a == frame[c].awaiting IN
    IF "promise" \in DOMAIN a
    THEN LET t == loadTask[a.promise] IN
         IF t.pc = "fulfilled" THEN Resolved(t.lib)
         ELSE IF t.pc = "rejected" THEN Rejected(t.reason)
         ELSE Null
    ELSE a

\* `const lib = await loadPdfJs()` resumes; then file.arrayBuffer() is called.
LoadResume(c) ==
    /\ pc[c] = "awaitLoad"
    /\ LoadSettlement(c) # Null
    /\ LET s == LoadSettlement(c) IN
       IF ~s.ok
       THEN /\ Raise(c, s.reason)
            /\ UNCHANGED <<frame, trace>>
       ELSE /\ frame' = [frame EXCEPT ![c].lib = s.value]
            /\ Step(c, <<"readBytes">>)
            /\ IF file[c] = Null
               THEN Raise(c, NullFileError)
               ELSE Goto(c, "awaitArrayBuffer")
    /\ UNCHANGED <<hasWindow, shared, file, canvases, objectURLs>>

\* file.arrayBuffer() settles; then lib.getDocument({ data }) is called.
ArrayBufferSettles(c) ==
    /\ pc[c] = "awaitArrayBuffer"
    /\ \/ /\ frame' = [frame EXCEPT ![c].arrayBuffer = [bytes |-> file[c].data]]
          /\ Step(c, <<"parse">>)
          /\ Goto(c, "awaitDocument")
       \/ /\ Raise(c, ReadError)
          /\ UNCHANGED <<frame, trace>>
    /\ UNCHANGED <<hasWindow, shared, file, canvases, objectURLs>>

\* getDocument(...).promise settles; then pdf.getPage(1) is called.
GetDocumentSettles(c) ==
    /\ pc[c] = "awaitDocument"
    /\ \/ /\ frame' = [frame EXCEPT ![c].pdf = [doc |-> frame[c].arrayBuffer.bytes]]
          /\ Step(c, <<"getPage">>)
          /\ Goto(c, "awaitPage")
       \/ /\ Raise(c, ParseError)
          /\ UNCHANGED <<frame, trace>>
    /\ UNCHANGED <<hasWindow, shared, file, canvases, objectURLs>>

PageOf(pdf) ==
    [doc |-> pdf.doc, width |-> PageSize(pdf.doc).width, height |-> PageSize(pdf.doc).height]

NullContextError == MkError("TypeError", "Cannot set properties of null")

\* pdf.getPage(1) settles; the synchronous stretch up to `await page.render`
\* follows: viewport, canvas element, 2D context, context guard, canvas size.
GetPageSettles(c) ==
    /\ pc[c] = "awaitPage"
    /\ \E o \in {"pageRejects", "viewportThrows", "canvasThrows", "noContext", "ok"} :
         LET page == PageOf(frame[c].pdf)
             viewport == GetViewport(page)
             k == CreateCanvas(c)
             context == IF o = "noContext" THEN Null ELSE [canvas |-> k]
         IN
         CASE o = "pageRejects" ->
                /\ Raise(c, PageError)
                /\ UNCHANGED <<frame, trace, canvases>>
           [] o = "viewportThrows" ->
                /\ Raise(c, ViewportError)
                /\ frame' = [frame EXCEPT ![c].page = page]
                /\ Step(c, <<"viewport">>)
                /\ UNCHANGED canvases
           [] o = "canvasThrows" ->
                /\ Raise(c, CanvasError)
                /\ frame' = [frame EXCEPT ![c].page = page, ![c].viewport = viewport]
                /\ Step(c, <<"viewport", "canvas">>)
                /\ UNCHANGED canvases
           [] OTHER ->
                /\ frame' = [frame EXCEPT ![c].page = page, ![c].viewport = viewport,
                                          ![c].canvas = k, ![c].context = context]
                /\ IF ContextMissing(context)
                   THEN /\ Return(c, ContextErrorResult)
                        /\ Step(c, <<"viewport", "canvas">>)
                        /\ UNCHANGED canvases
                   ELSE /\ canvases' = [canvases EXCEPT ![k.id] =
                               [width |-> viewport.width, height |-> viewport.height,
                                image |-> Null]]
                        /\ IF context = Null
                           THEN /\ Raise(c, NullContextError)
                                /\ Step(c, <<"viewport", "canvas">>)
                           ELSE /\ Goto(c, "awaitRender")
                                /\ Step(c, <<"viewport", "canvas", "render">>)
    /\ UNCHANGED <<hasWindow, shared, file, objectURLs>>

\* page.render(...).promise settles: the page has been drawn into the canvas
\* the context belongs to; then canvas.toBlob is called.
RenderSettles(c) ==
    /\ pc[c] = "awaitRender"
    /\ \/ /\ LET k == frame[c].context.canvas.id IN
             canvases' = [canvases EXCEPT ![k].image =
                 [doc |-> frame[c].page.doc, width |-> canvases[k].width,
                  height |-> canvases[k].height]]
          /\ Step(c, <<"encode">>)
          /\ Goto(c, "awaitBlob")
       \/ /\ Raise(c, RenderError)
          /\ UNCHANGED <<canvases, trace>>
    /\ UNCHANGED <<hasWindow, shared, file, frame, objectURLs>>

\* if (!blob) ...
BlobMissing(blob) == blob = Null

BlobSettlesUrlFirst(c) ==
    /\ pc[c] = "awaitBlob"
    /\ \E o \in {"rejects", "null", "fileThrows", "urlThrows", "ok"} :
         LET blob == IF o = "null" THEN Null
                     ELSE [type |-> "image/png", image |-> canvases[frame[c].canvas.id].image]
             imageFile == [name |-> PngName(file[c].name), type |-> "image/png",
                           parts |-> blob]
             imageUrl == "blob:" \o ToString(Len(objectURLs) + 1)
         IN
         CASE o = "rejects" ->
                /\ Raise(c, ToBlobError)
                /\ UNCHANGED <<frame, trace, objectURLs>>
           [] OTHER ->
                /\ frame' = [frame EXCEPT ![c].blob = blob]
                /\ IF BlobMissing(blob)
                   THEN /\ Return(c, BlobErrorResult)
                        /\ UNCHANGED <<trace, objectURLs>>
                   ELSE IF o = "urlThrows"
                   THEN /\ Raise(c, UrlError)
                        /\ Step(c, <<"wrap">>)
                        /\ UNCHANGED objectURLs
                   ELSE IF o = "fileThrows"
                   THEN /\ Raise(c, WrapError)
                        /\ objectURLs' = Append(objectURLs, blob)
                        /\ Step(c, <<"wrap", "createObjectURL">>)
                   ELSE /\ objectURLs' = Append(objectURLs, blob)
                        /\ Step(c, <<"wrap", "createObjectURL">>)
                        /\ Return(c, [imageUrl |-> imageUrl, file |-> imageFile])
    /\ UNCHANGED <<hasWindow, shared, file, canvases>>

\* The toBlob promise settles; the rest of the function runs: blob guard,
\* output name, new File, URL.createObjectURL, return.
BlobSettles(c) ==
    /\ pc[c] = "awaitBlob"
    /\ \E o \in {"rejects", "null", "fileThrows", "urlThrows", "ok"} :
         LET blob == IF o = "null" THEN Null
                     ELSE [type |-> "image/png", image |-> canvases[frame[c].canvas.id].image]
             imageFile == [name |-> PngName(file[c].name), type |-> "image/png",
                           parts |-> blob]
             imageUrl == "blob:" \o ToString(Len(objectURLs) + 1)
         IN
         CASE o = "rejects" ->
                /\ Raise(c, ToBlobError)
                /\ UNCHANGED <<frame, trace, objectURLs>>
           [] OTHER ->
                /\ frame' = [frame EXCEPT ![c].blob = blob]
                /\ IF BlobMissing(blob)
                   THEN /\ Return(c, BlobErrorResult)
                        /\ UNCHANGED <<trace, objectURLs>>
                   ELSE IF o = "fileThrows"
                   THEN /\ Raise(c, WrapError)
                        /\ Step(c, <<"wrap">>)
                        /\ UNCHANGED objectURLs
                   ELSE IF o = "urlThrows"
                   THEN /\ Raise(c, UrlError)
                        /\ Step(c, <<"wrap", "createObjectURL">>)
                        /\ UNCHANGED objectURLs
                   ELSE /\ objectURLs' = Append(objectURLs, blob)
                        /\ Step(c, <<"wrap", "createObjectURL">>)
                        /\ Return(c, [imageUrl |-> imageUrl, file |-> imageFile])
    /\ UNCHANGED <<hasWindow, shared, file, canvases>>

\* ---------------------------------------------------------------- specification
Next ==
    \/ \E c \in Calls, f \in FileArgs : Call(c, f)
    \/ \E p \in Calls : ImportSettles(p)
    \/ \E p \in Calls : WorkerImportSettles(p)
    \/ \E p \in Calls : LoaderResume(p)
    \/ \E c \in Calls : LoadResume(c)
    \/ \E c \in Calls : ArrayBufferSettles(c)
    \/ \E c \in Calls : GetDocumentSettles(c)
    \/ \E c \in Calls : GetPageSettles(c)
    \/ \E c \in Calls : RenderSettles(c)
    \/ \E c \in Calls : BlobSettles(c)

Spec == Init /\ [][Next]_vars

\* A pending external operation settles and the continuation waiting for it
\* runs.
Settle ==
    \E c \in Calls :
        \/ ImportSettles(c)
        \/ WorkerImportSettles(c)
        \/ LoaderResume(c)
        \/ LoadResume(c)
        \/ ArrayBufferSettles(c)
        \/ GetDocumentSettles(c)
        \/ GetPageSettles(c)
        \/ RenderSettles(c)
        \/ BlobSettles(c)

\* Every awaited external operation eventually settles, and the event loop
\* then runs the continuation; nothing obliges anyone to start a call.
FairSpec == Spec /\ WF_vars(Settle)

\* ---------------------------------------------------------------- file names
\* One call in a browser, its file name drawn from every name of up to
\* MaxNameLen characters over NameChars, and the two names of PdfFiles.
NameChars == {"a", ".", "p", "d", "f", "P", "D", "F"}

Names == UNION {[1..n -> NameChars] : n \in 0..MaxNameLen}

NameArgs == {MkFile(n, "docA") : n \in Names} \cup PdfFiles

NameInit == Init /\ hasWindow

NameNext ==
    \/ pc[1] = "idle" /\ \E f \in NameArgs : Call(1, f)
    \/ ImportSettles(1)
    \/ WorkerImportSettles(1)
    \/ LoaderResume(1)
    \/ LoadResume(1)
    \/ ArrayBufferSettles(1)
    \/ GetDocumentSettles(1)
    \/ GetPageSettles(1)
    \/ RenderSettles(1)
    \/ BlobSettles(1)

NameSpec == NameInit /\ [][NameNext]_vars

\* ---------------------------------------------------------------- properties
Range(seq) == {seq[i] : i \in DOMAIN seq}

Returned(c) == pc[c] = "done"

IsSuccess(r) ==
    /\ DOMAIN r = {"imageUrl", "file"}
    /\ r.imageUrl # ""
    /\ r.file # Null

IsFailure(r) ==
    /\ DOMAIN r = {"imageUrl", "file", "error"}
    /\ r.imageUrl = ""
    /\ r.file = Null

\* The name ends in ".pdf" in some letter case.
PdfSuffixes ==
    {<<".", p, d, f>> : p \in {"p", "P"}, d \in {"d", "D"}, f \in {"f", "F"}}

EndsInPdf(name) ==
    /\ Len(name) >= 4
    /\ SubSeq(name, Len(name) - 3, Len(name)) \in PdfSuffixes

ValidArg(f) == f # Null /\ EndsInPdf(f.name)

\* Steps of a call that come after the engine has been obtained.
LaterSteps ==
    {"readBytes", "parse", "getPage", "viewport", "canvas", "render", "encode",
     "wrap", "createObjectURL"}

\* C1: convertPdfToImage never throws or rejects: whatever the external steps
\* do, a call is never left with a rejected promise, and a call that has
\* finished has resolved with a result object (imageUrl and file fields).
C1_NeverRejects ==
    \A c \in Calls :
        /\ pc[c] # "rejected"
        /\ Returned(c) => {"imageUrl", "file"} \subseteq DOMAIN result[c]

\* A late step (URL.createObjectURL) threw in one call and the render failed
\* in another; both calls returned.
C1_Witness ==
    \E c, d \in Calls :
        /\ Returned(c) /\ "createObjectURL" \in Range(trace[c])
        /\ "error" \in DOMAIN result[c]
        /\ Returned(d) /\ trace[d][Len(trace[d])] = "render"
        /\ "error" \in DOMAIN result[d]

\* C2: every returned result is either a success (imageUrl non-empty, file
\* non-null, no error field) or a failure (error field, imageUrl "", file
\* null), never a mixture.
C2_ResultShape ==
    \A c \in Calls : Returned(c) => IsSuccess(result[c]) \/ IsFailure(result[c])

C2_Witness ==
    \E c, d \in Calls :
        /\ Returned(c) /\ IsSuccess(result[c])
        /\ Returned(d) /\ IsFailure(result[d]) /\ LaterSteps \cap Range(trace[d]) # {}

\* C3: engine loading is single-flight: the engine import is started at most
\* once, by at most one load task, and every call that holds an engine handle
\* holds the one published in pdfjsLib.
C3_SingleFlight ==
    /\ importsStarted <= 1
    /\ Cardinality({p \in Calls : loadTask[p].pc # "none"}) <= 1
    /\ \A c \in Calls : frame[c].lib # Null => frame[c].lib = pdfjsLib
    /\ \A c, d \in Calls :
          frame[c].lib # Null /\ frame[d].lib # Null => frame[c].lib = frame[d].lib

\* Two calls hold a handle, the second having started while the first call's
\* load was still in flight.
C3_Witness ==
    \E c, d \in Calls :
        /\ c # d
        /\ frame[c].lib # Null /\ frame[d].lib # Null
        /\ frame[c].awaiting = PromiseRef(c)
        /\ frame[d].awaiting = PromiseRef(c)

\* C4: a new call is a fresh attempt: a call that starts after an earlier call
\* has returned an error does not begin with an engine load that has already
\* failed; what it awaits is the ready engine or a load still to settle, so
\* no earlier failure is replayed to it.
C4_FreshAttempt ==
    [][\A c \in Calls :
          ( /\ pc[c] = "idle"
            /\ pc'[c] = "awaitLoad"
            /\ \E d \in Calls : Returned(d) /\ "error" \in DOMAIN result[d] )
          => (LoadSettlement(c)' = Null \/ LoadSettlement(c)'.ok)]_vars

\* C5: in a browser, a null file or a name not ending in .pdf gives the
\* validation error (file null, imageUrl "") and the call touches nothing of
\* the engine: it starts no load, changes no shared engine state and performs
\* no later step.
C5_InvalidFileTouchesNothing ==
    /\ [](\A c \in Calls :
            (hasWindow /\ pc[c] # "idle" /\ ~ValidArg(file[c])) =>
               /\ Returned(c)
               /\ result[c] = [imageUrl |-> "", file |-> Null,
                               error |-> "Please provide a valid .pdf file."]
               /\ trace[c] = <<"validate">>
               /\ frame[c] = EmptyFrame
               /\ loadTask[c].pc = "none")
    /\ [][\A c \in Calls :
            (hasWindow /\ pc[c] = "idle" /\ pc'[c] # "idle" /\ ~ValidArg(file'[c])) =>
               UNCHANGED <<shared, canvases, objectURLs>>]_vars

\* A name with ".pdf" in the middle and a null file were both turned away.
C5_Witness ==
    /\ hasWindow
    /\ \E c, d \in Calls :
        /\ Returned(c) /\ file[c] # Null /\ ~EndsInPdf(file[c].name)
        /\ \E i \in 1..Len(file[c].name) : file[c].name[i] = "."
        /\ Returned(d) /\ file[d] = Null

\* C6: without a browser context every call, whatever its file argument,
\* returns the environment error, never the validation error, and nothing of
\* the engine is started or read.
C6_EnvironmentFirst ==
    ~hasWindow =>
        /\ \A c \in Calls :
              pc[c] # "idle" =>
                 /\ Returned(c)
                 /\ result[c] = [imageUrl |-> "", file |-> Null,
                                 error |-> "PDF conversion is only available in the browser."]
                 /\ trace[c] = <<"validate">>
                 /\ frame[c] = EmptyFrame
        /\ importsStarted = 0
        /\ pdfjsLib = Null
        /\ loadPromise = Null
        /\ \A p \in Calls : loadTask[p] = NoTask

C6_Witness ==
    /\ ~hasWindow
    /\ \E c, d \in Calls :
        /\ Returned(c) /\ ~ValidArg(file[c])
        /\ Returned(d) /\ ValidArg(file[d])

\* The image a call's own input renders to: page 1 of its document at three
\* times the page's native size.
OwnImage(c) ==
    [doc |-> file[c].data,
     width |-> 3 * PageSize(file[c].data).width,
     height |-> 3 * PageSize(file[c].data).height]

OwnBlob(c) == [type |-> "image/png", image |-> OwnImage(c)]

OwnName(c) ==
    SubSeq(file[c].name, 1, Len(file[c].name) - 4) \o <<".", "p", "n", "g">>

\* C7: concurrent calls on distinct PDFs do not interfere: no two calls share
\* a canvas, what a call has rendered is its own page at its own size, and a
\* success result carries the call's own output name and its own image, also
\* behind its object URL.
C7_NoInterference ==
    /\ \A c, d \in Calls :
          (c # d /\ frame[c].canvas # Null /\ frame[d].canvas # Null)
             => frame[c].canvas # frame[d].canvas
    /\ \A c \in Calls :
          pc[c] = "awaitBlob" => canvases[frame[c].canvas.id].image = OwnImage(c)
    /\ \A c \in Calls :
          (Returned(c) /\ "error" \notin DOMAIN result[c]) =>
             /\ result[c].file = [name |-> OwnName(c), type |-> "image/png",
                                  parts |-> OwnBlob(c)]
             /\ \E i \in DOMAIN objectURLs :
                   /\ result[c].imageUrl = "blob:" \o ToString(i)
                   /\ objectURLs[i] = OwnBlob(c)

\* Two calls on different documents, the second started while the first was
\* still waiting for the engine, have both returned a success.
C7_Witness ==
    \E c, d \in Calls :
        /\ c # d
        /\ file[c] # Null /\ file[d] # Null /\ file[c].data # file[d].data
        /\ frame[c].awaiting = PromiseRef(c)
        /\ frame[d].awaiting = PromiseRef(c)
        /\ Returned(c) /\ IsSuccess(result[c])
        /\ Returned(d) /\ IsSuccess(result[d])

\* The load task call c waited on has failed.
LoadFailedFor(c, p) ==
    /\ frame[c].awaiting = PromiseRef(p)
    /\ loadTask[p].pc = "rejected"

\* C8 as claimed: when the engine load fails with message m, every call that
\* waited on it returns the error "Failed to convert PDF: " followed by m,
\* with imageUrl "" and file null, having performed none of the later steps.
C8_LoadFailureMessage ==
    \A c, p \in Calls :
        (Returned(c) /\ LoadFailedFor(c, p)) =>
           /\ result[c] = [imageUrl |-> "", file |-> Null,
                           error |-> "Failed to convert PDF: "
                                        \o loadTask[p].reason.message]
           /\ trace[c] = <<"validate", "loadEngine">>

\* C8 amended: the same for a failure whose message m is not empty; for an
\* Error whose message is empty the text after the prefix is String(err), the
\* error's name; whatever the message, the call returns a failure, never
\* obtains a handle and performs none of the later steps.
C8_LoadFailureReported ==
    \A c, p \in Calls :
        LoadFailedFor(c, p) =>
           /\ frame[c].lib = Null
           /\ pc[c] \in {"awaitLoad", "done"}
           /\ Returned(c) =>
                /\ IsFailure(result[c])
                /\ trace[c] = <<"validate", "loadEngine">>
                /\ loadTask[p].reason.message # "" =>
                      result[c] = [imageUrl |-> "", file |-> Null,
                                   error |-> "Failed to convert PDF: "
                                                \o loadTask[p].reason.message]
                /\ loadTask[p].reason.message = "" =>
                      result[c] = [imageUrl |-> "", file |-> Null,
                                   error |-> "Failed to convert PDF: "
                                                \o loadTask[p].reason.name]

\* Two calls waited on one load that failed with a non-empty message; both
\* have returned.
C8_Witness ==
    \E c, d, p \in Calls :
        /\ c # d
        /\ LoadFailedFor(c, p) /\ LoadFailedFor(d, p)
        /\ loadTask[p].reason.message # ""
        /\ Returned(c) /\ Returned(d)

\* C9: resolving the worker location never fails the load: a load whose
\* engine import succeeded is never rejected; getWorkerUrl always resolves,
\* to the asset URL when the asset import produced one and to
\* "/pdf.worker.min.mjs" when it produced nothing or threw; that value is what
\* the worker location is set to; and no result reports the asset failure.
C9_WorkerFallback ==
    /\ \A p \in Calls :
          /\ loadTask[p].lib # Null => loadTask[p].pc # "rejected"
          /\ loadTask[p].pc \in {"resume", "fulfilled"} =>
                /\ loadTask[p].workerUrl.ok
                /\ loadTask[p].workerUrl.value =
                      IF loadTask[p].mod.threw \/ loadTask[p].mod.default = ""
                      THEN "/pdf.worker.min.mjs"
                      ELSE loadTask[p].mod.default
          /\ loadTask[p].pc = "fulfilled" => workerSrc = loadTask[p].workerUrl.value
    /\ \A c \in Calls :
          (Returned(c) /\ "error" \in DOMAIN result[c]) =>
             result[c].error \notin
                {"Failed to convert PDF: " \o WorkerImportError.message,
                 "Failed to convert PDF: " \o ErrString(WorkerImportError)}

\* The asset import threw, the load completed with the fallback location and
\* a call went on to succeed.
C9_Witness ==
    \E p, c \in Calls :
        /\ loadTask[p].pc = "fulfilled"
        /\ loadTask[p].mod.threw
        /\ workerSrc = "/pdf.worker.min.mjs"
        /\ Returned(c) /\ IsSuccess(result[c])

\* C10: when no 2D context can be had, the call returns the error
\* "Unable to get 2D canvas context." with file null, from the guard and not
\* from the catch block, and never renders, encodes or creates an object URL.
C10_NoContextGuard ==
    \A c \in Calls :
        (Returned(c) /\ frame[c].canvas # Null /\ frame[c].context = Null) =>
           /\ result[c] = [imageUrl |-> "", file |-> Null,
                           error |-> "Unable to get 2D canvas context."]
           /\ Range(trace[c]) \cap {"render", "encode", "wrap", "createObjectURL"} = {}
           /\ canvases[frame[c].canvas.id].image = Null

C10_Witness ==
    \E c \in Calls :
        /\ Returned(c)
        /\ frame[c].canvas # Null
        /\ frame[c].context = Null
        /\ trace[c][Len(trace[c])] = "canvas"

\* The order in which the source performs the steps of one call.
StepOrder ==
    <<"validate", "loadEngine", "readBytes", "parse", "getPage", "viewport",
      "canvas", "render", "encode", "wrap", "createObjectURL">>

\* The positions of a call, in the order of the source, and the state of the
\* per-call state machine each belongs to.
PcOrder ==
    <<"idle", "awaitLoad", "awaitArrayBuffer", "awaitDocument", "awaitPage",
      "awaitRender", "awaitBlob", "done">>

\* Index of a position in PcOrder.
PcRank(l) ==
    CASE l = "idle" -> 1
      [] l = "awaitLoad" -> 2
      [] l = "awaitArrayBuffer" -> 3
      [] l = "awaitDocument" -> 4
      [] l = "awaitPage" -> 5
      [] l = "awaitRender" -> 6
      [] l = "awaitBlob" -> 7
      [] l = "done" -> 8
      [] OTHER -> 0

Phase(l) ==
    CASE l = "idle" -> "Idle"
      [] l = "awaitLoad" -> "EngineReady"
      [] l \in {"awaitArrayBuffer", "awaitDocument", "awaitPage"} -> "Parsing"
      [] l = "awaitRender" -> "Rendering"
      [] l = "awaitBlob" -> "Encoding"
      [] l = "done" -> "Done"

\* Validating is passed through inside the step that starts the call.
PhaseOrder == <<"Idle", "EngineReady", "Parsing", "Rendering", "Encoding", "Done">>

\* Index of a state in PhaseOrder.
PhaseRank(ph) ==
    CASE ph = "Idle" -> 1
      [] ph = "EngineReady" -> 2
      [] ph = "Parsing" -> 3
      [] ph = "Rendering" -> 4
      [] ph = "Encoding" -> 5
      [] ph = "Done" -> 6

\* C11: within one call the steps are begun strictly in the order validate,
\* obtain engine, read bytes, parse, get page, viewport, canvas, render,
\* encode, wrap; a step is begun only when the await before it has resumed, so
\* the call's position only moves to the next await or to Done, an error
\* result is returned only by a move to Done, and Done is never left.
C11_SequentialSteps ==
    /\ [](\A c \in Calls :
            /\ PcRank(pc[c]) \in DOMAIN PcOrder
            /\ Len(trace[c]) <= Len(StepOrder)
            /\ trace[c] = SubSeq(StepOrder, 1, Len(trace[c]))
            /\ Returned(c) <=> result[c] # Null)
    /\ [][\A c \in Calls :
            /\ pc'[c] # pc[c] =>
                  \/ PcRank(pc'[c]) = PcRank(pc[c]) + 1
                  \/ pc'[c] = "done"
            /\ pc[c] = "done" =>
                  pc'[c] = "done" /\ result'[c] = result[c] /\ trace'[c] = trace[c]
            /\ (pc[c] # "done" /\ result'[c] # Null) => pc'[c] = "done"
            /\ (pc'[c] # pc[c] /\ pc'[c] # "done") => Len(trace'[c]) > Len(trace[c])
            /\ PhaseRank(Phase(pc'[c])) >= PhaseRank(Phase(pc[c]))
            /\ \/ PhaseRank(Phase(pc'[c])) <= PhaseRank(Phase(pc[c])) + 1
               \/ Phase(pc'[c]) = "Done"]_vars

\* One call has gone through every step to a success, another left the
\* Rendering state by its error exit.
C11_Witness ==
    \E c, d \in Calls :
        /\ Returned(c) /\ trace[c] = StepOrder /\ IsSuccess(result[c])
        /\ Returned(d) /\ trace[d][Len(trace[d])] = "render"
        /\ "error" \in DOMAIN result[d]

\* C12: the shared engine state is written only by the first-time
\* initialization: pdfjsLib changes only from null, in the step that completes
\* the one load; once it is set, no step of any call or loader changes
\* pdfjsLib, loadPromise, the worker location or the load task; and every step
\* a call takes after it has started leaves the shared engine state unchanged.
C12_EngineWrittenOnce ==
    [][/\ pdfjsLib # Null =>
             UNCHANGED <<pdfjsLib, loadPromise, workerSrc, loadTask, importsStarted>>
       /\ pdfjsLib' # pdfjsLib =>
             /\ pdfjsLib = Null
             /\ loadPromise # Null
             /\ loadTask[loadPromise.promise].pc = "resume"
             /\ loadTask'[loadPromise.promise].pc = "fulfilled"
       /\ workerSrc' # workerSrc => pdfjsLib' # pdfjsLib
       /\ \A c \in Calls :
             (pc[c] # "idle" /\ (pc'[c] # pc[c] \/ trace'[c] # trace[c]))
                => UNCHANGED shared]_vars

\* With the engine published, one call that found it ready has gone through
\* to a success and another has taken an error exit after the load.
C12_Witness ==
    /\ pdfjsLib # Null
    /\ \E c, d \in Calls :
          /\ frame[d].awaiting = Resolved(pdfjsLib)
          /\ Returned(d) /\ IsSuccess(result[d])
          /\ Returned(c) /\ "parse" \in Range(trace[c])
          /\ "error" \in DOMAIN result[c]

\* C13: on success the output file has type image/png and its name is the
\* input name with its last four characters, ".pdf" in some letter case,
\* replaced by ".png"; whatever comes before them, another ".pdf" included,
\* is kept: "cv.PDF" gives "cv.png" and "a.pdf.pdf" gives "a.pdf.png".
C13_OutputName ==
    \A c \in Calls :
        (Returned(c) /\ "error" \notin DOMAIN result[c]) =>
           LET n == file[c].name
               out == result[c].file.name
           IN /\ result[c].file.type = "image/png"
              /\ Len(n) >= 4
              /\ SubSeq(n, Len(n) - 3, Len(n)) \in PdfSuffixes
              /\ Len(out) = Len(n)
              /\ SubSeq(out, 1, Len(out) - 4) = SubSeq(n, 1, Len(n) - 4)
              /\ SubSeq(out, Len(out) - 3, Len(out)) = <<".", "p", "n", "g">>
              /\ n = <<"c", "v", ".", "P", "D", "F">> => out = <<"c", "v", ".", "p", "n", "g">>
              /\ n = <<"a", ".", "p", "d", "f", ".", "p", "d", "f">>
                    => out = <<"a", ".", "p", "d", "f", ".", "p", "n", "g">>

\* A name with a second ".pdf" before its suffix has been converted.
C13_Witness ==
    \E c \in Calls :
        /\ Returned(c) /\ IsSuccess(result[c])
        /\ file[c].name = <<"a", ".", "p", "d", "f", ".", "p", "d", "f">>
        /\ result[c].file.name = <<"a", ".", "p", "d", "f", ".", "p", "n", "g">>

\* C14: when every awaited external operation eventually settles, every call
\* that has started eventually returns, a call waiting on a load another call
\* started included (from some point on, every started call has returned);
\* and there is no timeout: a call waiting for its render
\* leaves that wait only when the render settles, to the encode step with the
\* page drawn or to the error return carrying the render's failure.
C14_EventuallyReturns ==
    /\ <>[](\A c \in Calls : pc[c] # "idle" => Returned(c))
    /\ [][\A c \in Calls :
            (pc[c] = "awaitRender" /\ pc'[c] # "awaitRender") =>
               \/ /\ pc'[c] = "awaitBlob"
                  /\ canvases[frame[c].canvas.id].image = Null
                  /\ canvases'[frame[c].canvas.id].image # Null
               \/ /\ pc'[c] = "done"
                  /\ result'[c] = [imageUrl |-> "", file |-> Null,
                                   error |-> "Failed to convert PDF: "
                                                \o RenderError.message]]_vars

\* Two calls have returned, one of which waited on the load the other started
\* and which then failed.
C14_Witness ==
    \E c, d \in Calls :
        /\ c # d
        /\ frame[c].awaiting = PromiseRef(c)
        /\ frame[d].awaiting = PromiseRef(c)
        /\ loadTask[c].pc = "rejected"
        /\ Returned(c) /\ Returned(d)

\* C15: publish-after-configure: whenever pdfjsLib is set, the worker location
\* has been set, to the value getWorkerUrl resolved to; and every call that
\* holds a handle, and so every call that has begun to parse, holds it with
\* the worker location set.
C15_PublishAfterConfigure ==
    /\ pdfjsLib # Null =>
          /\ workerSrc \in {"/pdf.worker.min.mjs", AssetWorkerUrl}
          /\ \E p \in Calls :
                /\ loadTask[p].pc = "fulfilled"
                /\ workerSrc = loadTask[p].workerUrl.value
    /\ \A c \in Calls :
          (frame[c].lib # Null \/ "parse" \in Range(trace[c])) =>
             /\ workerSrc # ""
             /\ pdfjsLib # Null
             /\ frame[c].lib = pdfjsLib

\* A call that joined a load in flight is parsing; the worker location is
\* the fallback path.
C15_Witness ==
    \E c, d \in Calls :
        /\ frame[c].awaiting = PromiseRef(d)
        /\ c # d
        /\ pc[c] = "awaitDocument"
        /\ workerSrc = "/pdf.worker.min.mjs"

\* Calls that have returned a success.
Successes == {c \in Calls : Returned(c) /\ "error" \notin DOMAIN result[c]}

\* C16: an object URL is created only as the last step of a successful
\* conversion: as many URLs exist as successes have been returned, each
\* success holds a URL of its own and every URL is held by a success, so a
\* call that returned an error created none; a call creates its URL in the
\* very step in which it returns its success; and a URL once created is never
\* revoked.
C16_UrlOnlyOnSuccess ==
    /\ [](/\ Len(objectURLs) = Cardinality(Successes)
          /\ \A i \in DOMAIN objectURLs :
                \E c \in Successes : result[c].imageUrl = "blob:" \o ToString(i)
          /\ \A c, d \in Successes : c # d => result[c].imageUrl # result[d].imageUrl)
    /\ [][/\ Len(objectURLs') >= Len(objectURLs)
          /\ SubSeq(objectURLs', 1, Len(objectURLs)) = objectURLs
          /\ Len(objectURLs') > Len(objectURLs) =>
                /\ Len(objectURLs') = Len(objectURLs) + 1
                /\ \E c \in Calls :
                      /\ pc[c] = "awaitBlob"
                      /\ pc'[c] = "done"
                      /\ "error" \notin DOMAIN result'[c]
                      /\ result'[c].imageUrl = "blob:" \o ToString(Len(objectURLs'))]_vars

\* A call whose URL.createObjectURL threw has returned an error next to a call
\* that succeeded.
C16_Witness ==
    \E c, d \in Calls :
        /\ c \in Successes
        /\ Returned(d) /\ "error" \in DOMAIN result[d]
        /\ "createObjectURL" \in Range(trace[d])
        /\ Len(objectURLs) = 1

====
